---- MODULE Spec2Model ----
(***************************************************************************)
(* GAN-FACIES: self-attention GAN for facies maps.                         *)
(*                                                                         *)
(* Three entry points of the repository are modelled, each with its own    *)
(* specification over the shared variables:                                *)
(*   SpecNet   - SAGenerator / SADiscriminator (utils/sagan/modules.py):   *)
(*               construction, forward pass, generate; tensors are         *)
(*               modelled by their shapes (sequences of axis lengths).     *)
(*   SpecPix   - generate_pixel_maps (utils/conditioning.py).              *)
(*   SpecTrain - train(config) (gan_facies/apps/train.py) and the trainer  *)
(*               it starts.                                                *)
(***************************************************************************)
EXTENDS Integers, Sequences, FiniteSets, TLC

VARIABLES
    n_classes,      \* n_classes argument of both network constructors
    model_config,   \* config.model
    gen,            \* result of SAGenerator(n_classes, model_config)
    disc,           \* result of SADiscriminator(n_classes, model_config)
    out,            \* value returned (or error raised) by the last network call
    pix_call,       \* arguments of the generate_pixel_maps call
    pix_pc,         \* position in generate_pixel_maps
    n_pixels_int,   \* its local n_pixels_int
    i_batch,        \* its loop variable (samples filled so far)
    pixel_maps,     \* its local pixel_maps, the returned tensor
    cuda_available, \* torch.cuda.is_available()
    config,         \* the config given to train(config)
    app,            \* what train(config) has done: seed, cudnn, loader, trainer
    step,           \* trainer: step counter
    turn,           \* trainer: position in the training loop
    g_params,       \* trainer: generator parameters
    d_params,       \* trainer: discriminator parameters
    ema_params,     \* trainer: EMA shadow copy of the generator parameters
    g_optimizer,    \* trainer: generator optimizer state (moment estimates)
    d_optimizer,    \* trainer: discriminator optimizer state
    losses,         \* trainer: names of the losses returned by the last update
    ckpt_files,     \* checkpoint directory: file name -> saved parameters
    saved_at,       \* history: step -> parameters at the last save for that step
    runs,           \* number of runs of train(config) started
    found_inf       \* gradient scaler: the last update's gradients overflowed

netVars == <<n_classes, model_config, gen, disc, out>>
pixVars == <<pix_call, pix_pc, n_pixels_int, i_batch, pixel_maps>>

trainVars == <<cuda_available, config, app, step, turn, g_params, d_params,
               ema_params, g_optimizer, d_optimizer, losses, ckpt_files,
               saved_at, runs, found_inf>>

vars == <<n_classes, model_config, gen, disc, out,
          pix_call, pix_pc, n_pixels_int, i_batch, pixel_maps,
          cuda_available, config, app, step, turn, g_params, d_params,
          ema_params, g_optimizer, d_optimizer, losses, ckpt_files, saved_at,
          runs, found_inf>>

(***************************************************************************)
(* Bounds of the model.                                                    *)
(***************************************************************************)
MaxBatch == 2          \* batch sizes 1..MaxBatch
MaxAttnLayers == 2     \* attn_layer_num holds at most this many indices
PixMaxClasses == 2     \* generate_pixel_maps: n_classes in 1..PixMaxClasses

\* data sizes with an entry in datasize_to_num_blocks, and some without
ValidDataSizes == {32, 64, 128, 256}
OtherDataSizes == {16, 100}
\* block indices that attn_layer_num may name: 7 is num_blocks of the largest
\* network and lies past the blocks of every other one
AttnIndices == 1..7
ConvDims == {64}
\* class counts given to the network constructors
NClasses == {1, 4}
ZDims == {128}
KnownInitMethods == {"default", "orthogonal", "glorot", "normal"}
InitMethods == KnownInitMethods \cup {"kaiming"}

None == "None"

(***************************************************************************)
(* Python helpers.                                                         *)
(***************************************************************************)
\* int(np.log2(n)) for n >= 1
RECURSIVE Log2(_)
Log2(n) == IF n <= 1 THEN 0 ELSE 1 + Log2(n \div 2)

RECURSIVE Pow2(_)
Pow2(n) == IF n <= 0 THEN 1 ELSE 2 * Pow2(n - 1)

\* f'conv{i}', f'attn{i}'
ConvName(i) == <<"conv", i>>
AttnName(i) == <<"attn", i>>

\* datasize_to_num_blocks = {32: 4, 64: 5, 128: 6, 256: 7}
datasize_to_num_blocks == (32 :> 4) @@ (64 :> 5) @@ (128 :> 6) @@ (256 :> 7)

\* make_attention = [i + 1 in attn_layer_num for i in range(num_blocks)]
\* (1-based here: MakeAttention(..)[i] is Python's make_attention[i - 1])
MakeAttention(attn_layer_num, num_blocks) ==
    [i \in 1..num_blocks |-> i \in attn_layer_num]

(***************************************************************************)
(* Parameters of the layers, by number of axes, in named_parameters order. *)
(***************************************************************************)
\* SpectralNorm(conv): bias, u, v of the wrapped operator, then its weight
SpectralNormParams == <<1, 1, 1, 4>>
\* nn.Conv2d / nn.ConvTranspose2d: weight, bias
ConvParams == <<4, 1>>
\* nn.BatchNorm2d: weight, bias
BatchNormParams == <<1, 1>>

\* SelfAttention.__init__: gamma, query_conv, key_conv, value_conv, out_conv
SelfAttention(in_dim, full_values) ==
    [kind |-> "attn",
     chanel_in |-> in_dim,
     att_dim |-> in_dim \div 8,
     value_dim |-> IF full_values THEN in_dim ELSE in_dim \div 2,
     has_out_conv |-> ~full_values,
     params |-> <<1>> \o ConvParams \o ConvParams \o ConvParams
                \o (IF full_values THEN <<>> ELSE ConvParams)]

\* SADiscriminator._make_disc_block: SpectralNorm(Conv2d) + LeakyReLU(0.1)
make_disc_block(in_channels, out_channels, kernel_size, stride, padding) ==
    [kind |-> "conv2d",
     in_channels |-> in_channels, out_channels |-> out_channels,
     kernel_size |-> kernel_size, stride |-> stride, padding |-> padding,
     batch_norm |-> FALSE,
     params |-> SpectralNormParams]

\* SAGenerator._make_gen_block: SpectralNorm(ConvTranspose2d) + BatchNorm2d + ReLU
make_gen_block(in_channels, out_channels, kernel_size, stride, padding) ==
    [kind |-> "convT2d",
     in_channels |-> in_channels, out_channels |-> out_channels,
     kernel_size |-> kernel_size, stride |-> stride, padding |-> padding,
     batch_norm |-> TRUE,
     params |-> SpectralNormParams \o BatchNormParams]

\* nn.Sequential(nn.Conv2d(current_dim, 1, kernel_size=4))
DiscConvLast(current_dim) ==
    [kind |-> "conv2d",
     in_channels |-> current_dim, out_channels |-> 1,
     kernel_size |-> 4, stride |-> 1, padding |-> 0,
     batch_norm |-> FALSE,
     params |-> ConvParams]

\* mutant: three output channels (an RGB image) instead of n_classes
GenConvLastRGB(current_dim, nc) ==
    [kind |-> "convT2d",
     in_channels |-> current_dim, out_channels |-> 3,
     kernel_size |-> 4, stride |-> 2, padding |-> 1,
     batch_norm |-> FALSE,
     params |-> ConvParams]

\* nn.Sequential(nn.ConvTranspose2d(current_dim, n_classes, 4, stride=2, padding=1))
GenConvLast(current_dim, nc) ==
    [kind |-> "convT2d",
     in_channels |-> current_dim, out_channels |-> nc,
     kernel_size |-> 4, stride |-> 2, padding |-> 1,
     batch_norm |-> FALSE,
     params |-> ConvParams]

(***************************************************************************)
(* The module registry of a network: setattr(self, name, module) appends   *)
(* to an ordered list of (name, module); getattr looks a name up.          *)
(***************************************************************************)
SetAttr(modules, name, module) ==
    Append(modules, [name |-> name, module |-> module])

HasAttr(modules, name) == \E k \in 1..Len(modules) : modules[k].name = name

GetAttr(modules, name) ==
    modules[CHOOSE k \in 1..Len(modules) : modules[k].name = name].module

\* named_parameters(): the parameters of all registered modules, in order
RECURSIVE NamedParameters(_)
NamedParameters(modules) ==
    IF modules = <<>> THEN <<>>
    ELSE Head(modules).module.params \o NamedParameters(Tail(modules))

(***************************************************************************)
(* init_weights (identical in both networks).  Returns the number of       *)
(* parameters re-initialised and the error raised, if any.                 *)
(***************************************************************************)
UnknownInitMessage(init_method) ==
    <<"Unknown init method: ", init_method,
      ". Should be one of \"default\", \"orthogonal\", \"glorot\", \"normal\".">>

\* mutant: an unknown method is skipped silently, as 'default' is
RECURSIVE InitParamsSilent(_, _, _)
InitParamsSilent(params, init_method, done) ==
    IF params = <<>> THEN [error |-> None, message |-> <<>>, reinit |-> done]
    ELSE IF Head(params) = 4
            /\ init_method \in {"orthogonal", "glorot", "normal"}
         THEN InitParamsSilent(Tail(params), init_method, done + 1)
         ELSE InitParamsSilent(Tail(params), init_method, done)

RECURSIVE InitParams(_, _, _)
InitParams(params, init_method, done) ==
    IF params = <<>> THEN [error |-> None, message |-> <<>>, reinit |-> done]
    ELSE IF Head(params) = 4
         THEN IF init_method \in {"orthogonal", "glorot", "normal"}
              THEN InitParams(Tail(params), init_method, done + 1)
              ELSE [error |-> "ValueError",
                    message |-> UnknownInitMessage(init_method),
                    reinit |-> done]
         ELSE InitParams(Tail(params), init_method, done)

init_weights(modules, init_method) ==
    IF init_method = "default"
    THEN [error |-> None, message |-> <<>>, reinit |-> 0]
    ELSE InitParams(NamedParameters(modules), init_method, 0)

(***************************************************************************)
(* Network constructors.  A constructor either returns an instance         *)
(* (error = None) or raises; on a raise the record keeps what had been     *)
(* built so far, so that the order of effects can be stated.               *)
(***************************************************************************)
NoNet == [error |-> "unbuilt"]

\* mutant: dict.get with a fallback block count
LookupNumBlocksFallback(data_size) ==
    IF data_size \in DOMAIN datasize_to_num_blocks
    THEN [error |-> None, num_blocks |-> datasize_to_num_blocks[data_size]]
    ELSE [error |-> None, num_blocks |-> 4]

\* num_blocks = datasize_to_num_blocks[model_config.data_size]
LookupNumBlocks(data_size) ==
    IF data_size \in DOMAIN datasize_to_num_blocks
    THEN [error |-> None, num_blocks |-> datasize_to_num_blocks[data_size]]
    ELSE [error |-> "KeyError", num_blocks |-> 0]

NetRecord(error, message, nc, cfg, num_blocks, modules, reinit) ==
    [error |-> error, message |-> message,
     n_classes |-> nc, data_size |-> cfg.data_size,
     num_blocks |-> num_blocks,
     make_attention |-> MakeAttention(cfg.attn_layer_num, num_blocks),
     modules |-> modules, reinit |-> reinit]

\* the for loop of SADiscriminator.__init__, from block i on
RECURSIVE DiscBlocks(_, _, _, _, _)
DiscBlocks(i, num_blocks, nc, cfg, st) ==
    IF i >= num_blocks THEN st
    ELSE LET make_attention == MakeAttention(cfg.attn_layer_num, num_blocks)
             block == IF i = 1
                      THEN make_disc_block(nc, cfg.d_conv_dim, 4, 2, 1)
                      ELSE make_disc_block(st.current_dim,
                                           st.current_dim * 2, 4, 2, 1)
             current_dim == IF i = 1 THEN cfg.d_conv_dim
                            ELSE st.current_dim * 2
             withConv == SetAttr(st.modules, ConvName(i), block)
         IN  IF make_attention[i]
             THEN DiscBlocks(i + 1, num_blocks, nc, cfg,
                    [modules |-> SetAttr(withConv, AttnName(st.attn_id),
                                   SelfAttention(current_dim, cfg.full_values)),
                     attn_id |-> st.attn_id + 1,
                     current_dim |-> current_dim])
             ELSE DiscBlocks(i + 1, num_blocks, nc, cfg,
                    [modules |-> withConv,
                     attn_id |-> st.attn_id,
                     current_dim |-> current_dim])

SADiscriminator(nc, cfg) ==
    LET looked == LookupNumBlocks(cfg.data_size)
    IN  IF looked.error # None
        THEN NetRecord(looked.error, <<cfg.data_size>>, nc, cfg, 0, <<>>, 0)
        ELSE
        LET num_blocks == looked.num_blocks
            st == DiscBlocks(1, num_blocks, nc, cfg,
                    [modules |-> <<>>, attn_id |-> 1, current_dim |-> 0])
            modules == SetAttr(st.modules, <<"conv_last">>,
                               DiscConvLast(st.current_dim))
            init == init_weights(modules, cfg.init_method)
        IN  NetRecord(init.error, init.message, nc, cfg, num_blocks,
                      modules, init.reinit)

\* the for loop of SAGenerator.__init__, from block i on
RECURSIVE GenBlocks(_, _, _, _, _)
GenBlocks(i, num_blocks, mult, cfg, st) ==
    IF i >= num_blocks THEN st
    ELSE LET make_attention == MakeAttention(cfg.attn_layer_num, num_blocks)
             block == IF i = 1
                      THEN make_gen_block(cfg.z_dim, cfg.g_conv_dim * mult,
                                          4, 1, 0)
                      ELSE make_gen_block(st.current_dim,
                                          st.current_dim \div 2, 4, 2, 1)
             current_dim == IF i = 1 THEN cfg.g_conv_dim * mult
                            ELSE st.current_dim \div 2
             withConv == SetAttr(st.modules, ConvName(i), block)
         IN  IF make_attention[i]
             THEN GenBlocks(i + 1, num_blocks, mult, cfg,
                    [modules |-> SetAttr(withConv, AttnName(st.attn_id),
                                   SelfAttention(current_dim, cfg.full_values)),
                     attn_id |-> st.attn_id + 1,
                     current_dim |-> current_dim])
             ELSE GenBlocks(i + 1, num_blocks, mult, cfg,
                    [modules |-> withConv,
                     attn_id |-> st.attn_id,
                     current_dim |-> current_dim])

SAGenerator(nc, cfg) ==
    LET looked == LookupNumBlocks(cfg.data_size)
    IN  IF looked.error # None
        THEN NetRecord(looked.error, <<cfg.data_size>>, nc, cfg, 0, <<>>, 0)
        ELSE
        LET num_blocks == looked.num_blocks
            repeat_num == Log2(cfg.data_size) - 3
            mult == Pow2(repeat_num)
            st == GenBlocks(1, num_blocks, mult, cfg,
                    [modules |-> <<>>, attn_id |-> 1, current_dim |-> 0])
            modules == SetAttr(st.modules, <<"conv_last">>,
                               GenConvLast(st.current_dim, nc))
            init == init_weights(modules, cfg.init_method)
        IN  NetRecord(init.error, init.message, nc, cfg, num_blocks,
                      modules, init.reinit)

(***************************************************************************)
(* Layers applied to a tensor shape.  A result is [error, shape].          *)
(***************************************************************************)
Ok(shape) == [error |-> None, shape |-> shape]
Raise(error) == [error |-> error, shape |-> <<>>]

\* nn.Conv2d / nn.ConvTranspose2d (+ BatchNorm2d) on a (B, C, H, W) input
ConvOut(n, m) ==
    IF m.kind = "conv2d"
    THEN (n + 2 * m.padding - m.kernel_size) \div m.stride + 1
    ELSE (n - 1) * m.stride - 2 * m.padding + m.kernel_size

ApplyConv(m, x) ==
    IF Len(x) # 4 \/ x[2] # m.in_channels THEN Raise("RuntimeError")
    ELSE IF m.kind = "conv2d"
            /\ (x[3] + 2 * m.padding < m.kernel_size
                \/ x[4] + 2 * m.padding < m.kernel_size)
         THEN Raise("RuntimeError")
    ELSE LET y == <<x[1], m.out_channels, ConvOut(x[3], m), ConvOut(x[4], m)>>
         IN  IF y[3] <= 0 \/ y[4] <= 0 THEN Raise("RuntimeError")
             ELSE IF m.batch_norm /\ y[1] * y[3] * y[4] = 1
                  THEN Raise("ValueError")
                  ELSE Ok(y)

\* SelfAttention.forward: (out, attention)
ApplyAttention(m, x) ==
    IF Len(x) # 4 \/ x[2] # m.chanel_in
    THEN [error |-> "RuntimeError", shape |-> <<>>, attention |-> <<>>]
    ELSE [error |-> None, shape |-> x,
          attention |-> <<x[1], x[3] * x[4], x[3] * x[4]>>]

\* Tensor.squeeze(): drop every axis of length 1
RECURSIVE Squeeze(_)
Squeeze(x) ==
    IF x = <<>> THEN <<>>
    ELSE IF Head(x) = 1 THEN Squeeze(Tail(x))
         ELSE <<Head(x)>> \o Squeeze(Tail(x))

\* Tensor.unsqueeze(0)
Unsqueeze0(x) == <<1>> \o x

\* mutant: the batch axis is not restored after squeeze()
DiscPredictionSqueezeOnly(x) == Squeeze(x)

\* x = self.conv_last(x).squeeze(); if x.ndim == 0: x = x.unsqueeze(0)
DiscPrediction(x) ==
    LET sq == Squeeze(x)
    IN  IF Len(sq) = 0 THEN Unsqueeze0(sq) ELSE sq

(***************************************************************************)
(* Forward passes.  A result is [error, shape, att_list, used]: used lists *)
(* the attention layers applied, as (layer name, block index) pairs.       *)
(***************************************************************************)
FwdRaise(error, st) ==
    [error |-> error, shape |-> <<>>, att_list |-> st.att_list,
     used |-> st.used]

\* mutant: the layer is looked up by the index of the block
ForwardAttnNameByBlock(att_list, i) == AttnName(i)

\* f'attn{len(att_list) + 1}': the name of the attention layer the forward
\* loop looks up after block i
ForwardAttnName(att_list, i) == AttnName(Len(att_list) + 1)

\* the for loop shared by SADiscriminator.forward and SAGenerator.forward
RECURSIVE ForwardBlocks(_, _, _)
ForwardBlocks(i, net, st) ==
    IF i >= net.num_blocks \/ st.error # None THEN st
    ELSE IF ~HasAttr(net.modules, ConvName(i))
         THEN FwdRaise("AttributeError", st)
    ELSE LET c == ApplyConv(GetAttr(net.modules, ConvName(i)), st.shape)
         IN  IF c.error # None THEN FwdRaise(c.error, st)
             ELSE IF ~net.make_attention[i]
                  THEN ForwardBlocks(i + 1, net,
                         [st EXCEPT !.shape = c.shape])
             ELSE LET name == ForwardAttnName(st.att_list, i)
                  IN  IF ~HasAttr(net.modules, name)
                      THEN FwdRaise("AttributeError", st)
                      ELSE LET a == ApplyAttention(
                                      GetAttr(net.modules, name), c.shape)
                           IN  IF a.error # None THEN FwdRaise(a.error, st)
                               ELSE ForwardBlocks(i + 1, net,
                                      [error |-> None, shape |-> a.shape,
                                       att_list |-> Append(st.att_list,
                                                           a.attention),
                                       used |-> Append(st.used,
                                                       <<name, i>>)])

ForwardStart(x) ==
    [error |-> None, shape |-> x, att_list |-> <<>>, used |-> <<>>]

SADiscriminator_forward(net, x) ==
    LET st == ForwardBlocks(1, net, ForwardStart(x))
    IN  IF st.error # None THEN st
        ELSE LET c == ApplyConv(GetAttr(net.modules, <<"conv_last">>),
                                st.shape)
             IN  IF c.error # None THEN FwdRaise(c.error, st)
                 ELSE [st EXCEPT !.shape = DiscPrediction(c.shape)]

\* x = rearrange(z, 'B z_dim -> B z_dim 1 1'); ...; softmax over dim 1
SAGenerator_forward(net, z) ==
    IF Len(z) # 2 THEN FwdRaise("EinopsError", ForwardStart(z))
    ELSE
    LET st == ForwardBlocks(1, net, ForwardStart(<<z[1], z[2], 1, 1>>))
    IN  IF st.error # None THEN st
        ELSE LET c == ApplyConv(GetAttr(net.modules, <<"conv_last">>),
                                st.shape)
             IN  IF c.error # None THEN FwdRaise(c.error, st)
                 ELSE [st EXCEPT !.shape = c.shape]

\* torch.argmax(out, dim=1): the class axis disappears
ArgmaxDim1(x) == <<x[1]>> \o SubSeq(x, 3, Len(x))

\* color_data_np: one RGB colour per class index, appended as a last axis
color_data_np(x) == x \o <<3>>

\* mutant: the attention list is dropped whatever with_attn says
SAGenerator_generateNoAttn(net, z_input, with_attn) ==
    LET f == SAGenerator_forward(net, z_input)
    IN  IF f.error # None
        THEN [error |-> f.error, images |-> <<>>, attn_list |-> <<>>]
        ELSE [error |-> None,
              images |-> color_data_np(ArgmaxDim1(f.shape)),
              attn_list |-> <<>>]

\* SAGenerator.generate: (images, attn_list)
SAGenerator_generate(net, z_input, with_attn) ==
    LET f == SAGenerator_forward(net, z_input)
    IN  IF f.error # None
        THEN [error |-> f.error, images |-> <<>>, attn_list |-> <<>>]
        ELSE [error |-> None,
              images |-> color_data_np(ArgmaxDim1(f.shape)),
              attn_list |-> IF with_attn THEN f.att_list ELSE <<>>]

(***************************************************************************)
(* generate_pixel_maps (utils/conditioning.py).                            *)
(* pixel_maps is a function of (sample, class, row, column); samples are   *)
(* numbered from 1, classes, rows and columns from 0 as in the code.       *)
(***************************************************************************)
\* data sizes and batch sizes of the pixel maps
PixDataSizes == {1, 2}
PixBatchSizes == {1, 2}

\* n_pixels arguments: ints, lists of length 2, other lists, other types
PixCounts == -1 .. 5
NPixelsArgs ==
    [type : {"int"}, value : PixCounts]
    \cup [type : {"list"}, value : {0, 2, 4} \X {0, 2, 4}]
    \cup [type : {"list"}, value : {<<2>>, <<0, 1, 2>>}]
    \cup [type : {"tuple"}, value : {<<1, 2>>}]

PixCalls ==
    [batch_size : PixBatchSizes,
     n_classes : 1..PixMaxClasses,
     n_pixels : NPixelsArgs,
     data_size : PixDataSizes]

\* isinstance checks and np.random.randint(n_pixels[0], n_pixels[1]):
\* the values n_pixels_int can take, or the error raised
ResolveNPixels(n_pixels) ==
    IF n_pixels.type = "int"
    THEN [error |-> None, values |-> {n_pixels.value}]
    ELSE IF n_pixels.type = "list" /\ Len(n_pixels.value) = 2
         THEN IF n_pixels.value[1] >= n_pixels.value[2]
              THEN [error |-> "ValueError", values |-> {}]
              ELSE [error |-> None,
                    values |-> n_pixels.value[1] .. (n_pixels.value[2] - 1)]
         ELSE [error |-> "ValueError", values |-> {}]

\* torch.zeros((batch_size, n_classes, data_size, data_size))
Zeros(batch_size, nc, data_size) ==
    [t \in (1..batch_size) \X (0..(nc - 1))
           \X (0..(data_size - 1)) \X (0..(data_size - 1)) |-> 0]

\* tuples = [(i, j) for i in range(data_size) for j in range(data_size)]
GridTuples(data_size) == (0..(data_size - 1)) \X (0..(data_size - 1))

\* mutant: sampling with replacement
RandomChoices(population, k) == [1..k -> population]

\* random.sample(population, k), 0 <= k <= len(population): the lists of k
\* distinct elements
RandomSample(population, k) ==
    {s \in [1..k -> population] :
        \A i, j \in 1..k : i # j => s[i] # s[j]}

\* torch.randint(0, n_classes, (k,))
RandInt(nc, k) == [1..k -> 0..(nc - 1)]

\* mutant: the mask channel is not written
FillSampleNoMask(maps, b, pixels_idx, classes) ==
    [t \in DOMAIN maps |->
        IF /\ t[1] = b
           /\ \E j \in 1..Len(pixels_idx) :
                  /\ pixels_idx[j] = <<t[3], t[4]>>
                  /\ classes[j] = t[2]
        THEN 1 ELSE maps[t]]

\* pixel_maps[b, classes, pixels_h, pixels_w] = 1.0
\* pixel_maps[b, 0, pixels_h, pixels_w] = 1.0
FillSample(maps, b, pixels_idx, classes) ==
    [t \in DOMAIN maps |->
        IF /\ t[1] = b
           /\ \E j \in 1..Len(pixels_idx) :
                  /\ pixels_idx[j] = <<t[3], t[4]>>
                  /\ (classes[j] = t[2] \/ t[2] = 0)
        THEN 1 ELSE maps[t]]

\* lines 38-49: resolve n_pixels_int and allocate the map
PixEnter ==
    /\ pix_pc = "call"
    /\ LET r == ResolveNPixels(pix_call.n_pixels)
       IN  IF r.error # None
           THEN /\ pix_pc' = "raised"
                /\ UNCHANGED <<n_pixels_int, pixel_maps>>
           ELSE /\ pix_pc' = "loop"
                /\ n_pixels_int' \in r.values
                /\ pixel_maps' = Zeros(pix_call.batch_size,
                                       pix_call.n_classes, pix_call.data_size)
    /\ UNCHANGED <<pix_call, i_batch>>
    /\ UNCHANGED <<netVars, trainVars>>

\* lines 50-58: one iteration of the loop over the batch; random.sample
\* raises when n_pixels_int is negative or exceeds the number of tuples
PixSample ==
    /\ pix_pc = "loop"
    /\ i_batch < pix_call.batch_size
    /\ LET tuples == GridTuples(pix_call.data_size)
       IN  IF n_pixels_int < 0 \/ n_pixels_int > Cardinality(tuples)
           THEN /\ pix_pc' = "raised"
                /\ UNCHANGED <<i_batch, pixel_maps>>
           ELSE /\ \E pixels_idx \in RandomSample(tuples, n_pixels_int),
                      classes \in RandInt(pix_call.n_classes, n_pixels_int) :
                      pixel_maps' = FillSample(pixel_maps, i_batch + 1,
                                               pixels_idx, classes)
                /\ i_batch' = i_batch + 1
                /\ pix_pc' = "loop"
    /\ UNCHANGED <<pix_call, n_pixels_int>>
    /\ UNCHANGED <<netVars, trainVars>>

\* line 59: return pixel_maps
PixReturn ==
    /\ pix_pc = "loop"
    /\ i_batch >= pix_call.batch_size
    /\ pix_pc' = "returned"
    /\ UNCHANGED <<pix_call, n_pixels_int, i_batch, pixel_maps>>
    /\ UNCHANGED <<netVars, trainVars>>

(***************************************************************************)
(* train(config) (gan_facies/apps/train.py) and the trainer it starts.     *)
(* Parameters are abstracted to version counters: an optimizer step that   *)
(* is taken yields the next version, so parameters saved at different      *)
(* moments of a run differ.                                                *)
(***************************************************************************)
MaxStep == 2           \* total number of training steps of a run
MaxRuns == 2           \* runs of train(config), one after the other

Architectures == {"sagan", "cond_sagan", "dcgan"}
AdvLosses == {"wgan-gp", "hinge"}
Seeds == {0}
\* recover_model_step value meaning 'train from scratch'
NoRecover == 0

Configs ==
    [architecture : Architectures,
     seed : Seeds,
     adv_loss : AdvLosses,
     mixed_precision : BOOLEAN,
     recover_model_step : {NoRecover} \cup 1..(MaxStep - 1),
     model_save_step : {1, 2},
     ema_start_step : {0, 1}]

AppIdle ==
    [pc |-> "idle", error |-> None, message |-> <<>>, global_seed |-> <<>>,
     cudnn_benchmark |-> FALSE, data_loader |-> <<>>, trainer |-> <<>>]

\* DataLoader(dataset_path, data_size, training, data_config,
\*            [dataset_class], augmentation_fn)
DataLoader(dataset_class) == [dataset_class |-> dataset_class]

\* mutant: the seed is set before the accelerator is checked
trainSeedFirst(cuda, cfg) ==
    IF ~cuda
    THEN [AppIdle EXCEPT !.pc = "raised", !.error = "ValueError",
            !.message = <<"CUDA is not available and is required for training.">>,
            !.global_seed = <<cfg.seed>>]
    ELSE LET seeded == [AppIdle EXCEPT !.global_seed = <<cfg.seed>>,
                                       !.cudnn_benchmark = TRUE]
         IN  IF cfg.architecture = "sagan"
             THEN [seeded EXCEPT !.pc = "training",
                     !.data_loader = <<DataLoader("default")>>,
                     !.trainer = <<"UncondTrainerSAGAN">>]
             ELSE IF cfg.architecture = "cond_sagan"
             THEN [seeded EXCEPT !.pc = "training",
                     !.data_loader = <<DataLoader("DatasetCond2D")>>,
                     !.trainer = <<"CondTrainerSAGAN">>]
             ELSE [seeded EXCEPT !.pc = "raised",
                     !.error = "NotImplementedError",
                     !.message = <<"Architecture \"", cfg.architecture,
                                   "\" is not implemented!">>]

\* mutant: an unknown architecture falls back to the unconditional trainer
trainFallback(cuda, cfg) ==
    IF ~cuda
    THEN [AppIdle EXCEPT !.pc = "raised", !.error = "ValueError",
            !.message = <<"CUDA is not available and is required for training.">>]
    ELSE LET seeded == [AppIdle EXCEPT !.global_seed = <<cfg.seed>>,
                                       !.cudnn_benchmark = TRUE]
         IN  IF cfg.architecture = "cond_sagan"
             THEN [seeded EXCEPT !.pc = "training",
                     !.data_loader = <<DataLoader("DatasetCond2D")>>,
                     !.trainer = <<"CondTrainerSAGAN">>]
             ELSE [seeded EXCEPT !.pc = "training",
                     !.data_loader = <<DataLoader("default")>>,
                     !.trainer = <<"UncondTrainerSAGAN">>]

\* train(config), up to the call of the trainer's train()
train(cuda, cfg) ==
    IF ~cuda
    THEN [AppIdle EXCEPT !.pc = "raised", !.error = "ValueError",
            !.message = <<"CUDA is not available and is required for training.">>]
    ELSE LET seeded == [AppIdle EXCEPT !.global_seed = <<cfg.seed>>,
                                       !.cudnn_benchmark = TRUE]
         IN  IF cfg.architecture = "sagan"
             THEN [seeded EXCEPT !.pc = "training",
                     !.data_loader = <<DataLoader("default")>>,
                     !.trainer = <<"UncondTrainerSAGAN">>]
             ELSE IF cfg.architecture = "cond_sagan"
             THEN [seeded EXCEPT !.pc = "training",
                     !.data_loader = <<DataLoader("DatasetCond2D")>>,
                     !.trainer = <<"CondTrainerSAGAN">>]
             ELSE [seeded EXCEPT !.pc = "raised",
                     !.error = "NotImplementedError",
                     !.message = <<"Architecture \"", cfg.architecture,
                                   "\" is not implemented!">>]

(***************************************************************************)
(* The trainer.                                                            *)
(***************************************************************************)
\* mutant: one checkpoint file per role, overwritten at every save
CheckpointNameLatest(role, s) == <<role, "_latest">>

\* generator_step_<s>, discriminator_step_<s>
CheckpointName(role, s) == <<role, "_step_", s>>

\* torch.save of both parameter snapshots at step s
SaveModels(files, s, g, d) ==
    (CheckpointName("generator", s) :> g)
    @@ (CheckpointName("discriminator", s) :> d)
    @@ files

\* build_model_opt: fresh networks and optimizers, parameters loaded from
\* the snapshots of recover_model_step when one is given
build_model_opt(cfg, files) ==
    IF cfg.recover_model_step = NoRecover
    THEN [error |-> None, g |-> 0, d |-> 0, step |-> 0]
    ELSE IF /\ CheckpointName("generator", cfg.recover_model_step)
                 \in DOMAIN files
            /\ CheckpointName("discriminator", cfg.recover_model_step)
                 \in DOMAIN files
         THEN [error |-> None,
               g |-> files[CheckpointName("generator",
                                          cfg.recover_model_step)],
               d |-> files[CheckpointName("discriminator",
                                          cfg.recover_model_step)],
               step |-> cfg.recover_model_step]
         ELSE [error |-> "FileNotFoundError", g |-> 0, d |-> 0, step |-> 0]

\* mutant: the gradient-penalty loss is reported under either loss
DiscLossNamesAlwaysGP(adv_loss) == {"d_loss", "d_loss_real", "d_loss_gp"}

\* names of the losses returned by train_discriminator
DiscLossNames(adv_loss) ==
    IF adv_loss = "wgan-gp" THEN {"d_loss", "d_loss_real", "d_loss_gp"}
    ELSE {"d_loss", "d_loss_real"}

\* names of the losses returned by train_generator
GenLossNames(adv_loss) == {"g_loss"}

\* ema = decay * ema + (1 - decay) * current, with decay 1/2; the shadow is
\* kept in halves of a parameter unit, so that the first blend is exact
EmaBlend(ema, current) == (ema + 2 * current) \div 2

\* the shadow copy taken of the parameters when the trainer is built
EmaShadow(params) == 2 * params

\* mutant: the shadow is blended from the first step on
EmaUpdateNoWarmup(ema, current, at_step, ema_start_step) ==
    EmaBlend(ema, current)

\* the EMA update of a generator update made at step at_step: the shadow is
\* blended once the step counter has reached ema_start_step
EmaUpdate(ema, current, at_step, ema_start_step) ==
    IF at_step >= ema_start_step THEN EmaBlend(ema, current) ELSE ema

\* mutant: the optimizer steps whatever the scaler found
OptimizerStepUnchecked(state, overflow) == state + 1

\* scaler.step(optimizer): the optimizer step is skipped when the scaled
\* gradients overflowed; a step taken yields the next version of the
\* parameters and of the moment estimates
OptimizerStep(state, overflow) == IF overflow THEN state ELSE state + 1

NoLosses == [by |-> "none", keys |-> {}, step |-> 0]

\* train(config) in a new process: nothing of an earlier run is left but
\* the checkpoint files
Train(cfg) ==
    /\ app.pc \in {"idle", "raised", "done"}
    /\ runs < MaxRuns
    /\ runs' = runs + 1
    /\ config' = cfg
    /\ LET a == train(cuda_available, cfg)
           b == build_model_opt(cfg, ckpt_files)
       IN  IF a.pc # "training"
           THEN /\ app' = a
                /\ turn' = "idle"
                /\ step' = 0
                /\ g_params' = 0
                /\ d_params' = 0
           ELSE IF b.error # None
           THEN /\ app' = [a EXCEPT !.pc = "raised", !.error = b.error,
                                    !.message = <<cfg.recover_model_step>>]
                /\ turn' = "idle"
                /\ step' = 0
                /\ g_params' = 0
                /\ d_params' = 0
           ELSE /\ app' = a
                /\ turn' = "disc"
                /\ step' = b.step
                /\ g_params' = b.g
                /\ d_params' = b.d
    /\ ema_params' = EmaShadow(g_params')
    /\ g_optimizer' = 0
    /\ d_optimizer' = 0
    /\ losses' = NoLosses
    /\ found_inf' = FALSE
    /\ UNCHANGED <<cuda_available, ckpt_files, saved_at>>
    /\ UNCHANGED <<netVars, pixVars>>

\* train_discriminator: one discriminator update.  With mixed precision an
\* overflow of the scaled gradients skips the optimizer step.
TrainDiscriminator(overflow) ==
    /\ app.pc = "training"
    /\ turn = "disc"
    /\ overflow => config.mixed_precision
    /\ d_params' = OptimizerStep(d_params, overflow)
    /\ d_optimizer' = OptimizerStep(d_optimizer, overflow)
    /\ found_inf' = overflow
    /\ losses' = [by |-> "train_discriminator",
                  keys |-> DiscLossNames(config.adv_loss), step |-> step]
    /\ turn' = "gen"
    /\ UNCHANGED <<cuda_available, config, app, step, g_params, ema_params,
                   g_optimizer, ckpt_files, saved_at, runs>>
    /\ UNCHANGED <<netVars, pixVars>>

\* train_generator: one generator update, then the EMA update
TrainGenerator(overflow) ==
    /\ app.pc = "training"
    /\ turn = "gen"
    /\ overflow => config.mixed_precision
    /\ LET g == OptimizerStep(g_params, overflow)
       IN  /\ g_params' = g
           /\ g_optimizer' = OptimizerStep(g_optimizer, overflow)
           /\ ema_params' = EmaUpdate(ema_params, g, step,
                                      config.ema_start_step)
    /\ found_inf' = overflow
    /\ losses' = [by |-> "train_generator",
                  keys |-> GenLossNames(config.adv_loss), step |-> step]
    /\ turn' = "end"
    /\ UNCHANGED <<cuda_available, config, app, step, d_params, d_optimizer,
                   ckpt_files, saved_at, runs>>
    /\ UNCHANGED <<netVars, pixVars>>

\* end of a training iteration: the step counter advances, the models are
\* saved at the configured cadence, the run ends after the last step
EndIteration ==
    /\ app.pc = "training"
    /\ turn = "end"
    /\ step' = step + 1
    /\ IF (step + 1) % config.model_save_step = 0
       THEN /\ ckpt_files' = SaveModels(ckpt_files, step + 1,
                                        g_params, d_params)
            /\ saved_at' = ((step + 1) :> <<g_params, d_params>>) @@ saved_at
       ELSE UNCHANGED <<ckpt_files, saved_at>>
    /\ IF step + 1 >= MaxStep
       THEN /\ app' = [app EXCEPT !.pc = "done"]
            /\ turn' = "idle"
       ELSE /\ turn' = "disc"
            /\ UNCHANGED app
    /\ UNCHANGED <<cuda_available, config, g_params, d_params, ema_params,
                   g_optimizer, d_optimizer, losses, runs, found_inf>>
    /\ UNCHANGED <<netVars, pixVars>>

(***************************************************************************)
(* SpecNet: the two networks built from one model configuration, and one   *)
(* call on them.  The calls leave the networks as they are (shapes and     *)
(* layers do not change), so a behaviour makes one call: a second call     *)
(* would reach nothing that a first call does not.                         *)
(***************************************************************************)
AttnLayerNums == {a \in SUBSET AttnIndices : Cardinality(a) <= MaxAttnLayers}

ModelConfigs ==
    [data_size : ValidDataSizes \cup OtherDataSizes,
     attn_layer_num : AttnLayerNums,
     d_conv_dim : ConvDims,
     g_conv_dim : ConvDims,
     z_dim : ZDims,
     full_values : BOOLEAN,
     init_method : InitMethods]

NoOut == [op |-> "none"]

NetIdle ==
    /\ n_classes = 0
    /\ model_config = None
    /\ gen = NoNet
    /\ disc = NoNet
    /\ out = NoOut

PixIdle ==
    /\ pix_call = None
    /\ pix_pc = "idle"
    /\ n_pixels_int = None
    /\ i_batch = 0
    /\ pixel_maps = <<>>

TrainIdle ==
    /\ cuda_available = FALSE
    /\ config = None
    /\ app = AppIdle
    /\ step = 0
    /\ turn = "idle"
    /\ g_params = 0
    /\ d_params = 0
    /\ ema_params = 0
    /\ g_optimizer = 0
    /\ d_optimizer = 0
    /\ losses = NoLosses
    /\ ckpt_files = <<>>
    /\ saved_at = <<>>
    /\ runs = 0
    /\ found_inf = FALSE

InitNet ==
    /\ PixIdle
    /\ TrainIdle
    /\ n_classes \in NClasses
    /\ model_config \in {c \in ModelConfigs : c.d_conv_dim = c.g_conv_dim}
    /\ gen = NoNet
    /\ disc = NoNet
    /\ out = NoOut

\* gen = SAGenerator(n_classes, model_config)
BuildGenerator ==
    /\ gen = NoNet
    /\ gen' = SAGenerator(n_classes, model_config)
    /\ UNCHANGED <<n_classes, model_config, disc, out>>
    /\ UNCHANGED <<pixVars, trainVars>>

\* disc = SADiscriminator(n_classes, model_config)
BuildDiscriminator ==
    /\ disc = NoNet
    /\ disc' = SADiscriminator(n_classes, model_config)
    /\ UNCHANGED <<n_classes, model_config, gen, out>>
    /\ UNCHANGED <<pixVars, trainVars>>

\* gen(z) on a latent batch z of shape (B, z_dim)
GenForward(B) ==
    /\ out = NoOut
    /\ gen.error = None
    /\ LET f == SAGenerator_forward(gen, <<B, model_config.z_dim>>)
       IN  out' = [op |-> "gen.forward", batch |-> B, error |-> f.error,
                   shape |-> f.shape, att_list |-> f.att_list,
                   used |-> f.used]
    /\ UNCHANGED <<n_classes, model_config, gen, disc>>
    /\ UNCHANGED <<pixVars, trainVars>>

\* disc(x) on data x of shape (B, n_classes, data_size, data_size)
DiscForward(B) ==
    /\ out = NoOut
    /\ disc.error = None
    /\ LET x == <<B, n_classes, model_config.data_size,
                  model_config.data_size>>
           f == SADiscriminator_forward(disc, x)
       IN  out' = [op |-> "disc.forward", batch |-> B, error |-> f.error,
                   shape |-> f.shape, att_list |-> f.att_list,
                   used |-> f.used]
    /\ UNCHANGED <<n_classes, model_config, gen, disc>>
    /\ UNCHANGED <<pixVars, trainVars>>

\* gen.generate(z_input, with_attn)
Generate(B, with_attn) ==
    /\ out = NoOut
    /\ gen.error = None
    /\ LET g == SAGenerator_generate(gen, <<B, model_config.z_dim>>,
                                     with_attn)
       IN  out' = [op |-> "gen.generate", batch |-> B, error |-> g.error,
                   with_attn |-> with_attn,
                   images |-> g.images, attn_list |-> g.attn_list]
    /\ UNCHANGED <<n_classes, model_config, gen, disc>>
    /\ UNCHANGED <<pixVars, trainVars>>

\* trainer.generate_data(gen): a batch of latent vectors through
\* gen.generate, keeping the attention maps of the forward pass
generate_data(net, batch_size, z_dim) ==
    SAGenerator_generate(net, <<batch_size, z_dim>>, TRUE)

GenerateData(B) ==
    /\ out = NoOut
    /\ gen.error = None
    /\ LET g == generate_data(gen, B, model_config.z_dim)
       IN  out' = [op |-> "generate_data", batch |-> B, error |-> g.error,
                   images |-> g.images, attn_list |-> g.attn_list]
    /\ UNCHANGED <<n_classes, model_config, gen, disc>>
    /\ UNCHANGED <<pixVars, trainVars>>

NextNet ==
    \/ BuildGenerator
    \/ BuildDiscriminator
    \/ \E B \in 1..MaxBatch : GenForward(B)
    \/ \E B \in 1..MaxBatch : DiscForward(B)
    \/ \E B \in 1..MaxBatch, with_attn \in BOOLEAN : Generate(B, with_attn)
    \/ \E B \in 1..MaxBatch : GenerateData(B)

SpecNet == InitNet /\ [][NextNet]_vars

(***************************************************************************)
(* SpecPix: one call of generate_pixel_maps.                               *)
(***************************************************************************)
InitPix ==
    /\ NetIdle
    /\ TrainIdle
    /\ pix_call \in PixCalls
    /\ pix_pc = "call"
    /\ n_pixels_int = None
    /\ i_batch = 0
    /\ pixel_maps = <<>>

NextPix ==
    \/ PixEnter
    \/ PixSample
    \/ PixReturn

SpecPix == InitPix /\ [][NextPix]_vars

(***************************************************************************)
(* SpecTrain: runs of train(config), one after the other, on a machine     *)
(* with or without an accelerator; the checkpoint directory is kept from   *)
(* one run to the next.                                                    *)
(***************************************************************************)
InitTrain ==
    /\ NetIdle
    /\ PixIdle
    /\ cuda_available \in BOOLEAN
    /\ config = None
    /\ app = AppIdle
    /\ step = 0
    /\ turn = "idle"
    /\ g_params = 0
    /\ d_params = 0
    /\ ema_params = 0
    /\ g_optimizer = 0
    /\ d_optimizer = 0
    /\ losses = NoLosses
    /\ ckpt_files = <<>>
    /\ saved_at = <<>>
    /\ runs = 0
    /\ found_inf = FALSE

NextTrain ==
    \/ \E cfg \in Configs : Train(cfg)
    \/ \E overflow \in BOOLEAN : TrainDiscriminator(overflow)
    \/ \E overflow \in BOOLEAN : TrainGenerator(overflow)
    \/ EndIteration

SpecTrain == InitTrain /\ [][NextTrain]_vars

(***************************************************************************)
(* Properties of the networks (checked under SpecNet).                     *)
(***************************************************************************)
\* the attention layers a constructor registered
AttnLayers(net) ==
    {k \in 1..Len(net.modules) : net.modules[k].module.kind = "attn"}

\* C2: for every data size of the lookup and every batch size B, the
\* discriminator's prediction on a (B, n_classes, data_size, data_size)
\* input is a tensor with the single axis B; for B = 1 it is (1,), never a
\* 0-dimensional scalar.
C2_DiscPredictionOneAxis ==
    out.op = "disc.forward" =>
        /\ out.error = None
        /\ Len(out.shape) = 1
        /\ out.shape = <<out.batch>>

C2_Witness ==
    /\ out.op = "disc.forward"
    /\ out.batch = 1
    /\ model_config.data_size = 256
    /\ out.shape = <<1>>

C6_GenerateDataShapes ==
    out.op = "generate_data" =>
        /\ out.error = None
        /\ out.images = <<out.batch, model_config.data_size,
                          model_config.data_size, 3>>
        /\ Len(out.attn_list) = Cardinality(AttnLayers(gen))

C6_Witness ==
    /\ out.op = "generate_data"
    /\ out.batch = 2
    /\ model_config.data_size = 64
    /\ Cardinality(AttnLayers(gen)) = 2
    /\ Len(out.attn_list) = 2
    /\ out.images = <<2, 64, 64, 3>>

\* C9: with a data size of the lookup and an init_method outside default,
\* orthogonal, glorot, normal, both constructors raise an error whose
\* message holds the method name, no parameter has been re-initialised and
\* no instance is returned.
C9_UnknownInitMethodRaises ==
    \A net \in {gen, disc} :
        (/\ net # NoNet
         /\ model_config.data_size \in DOMAIN datasize_to_num_blocks
         /\ model_config.init_method \notin KnownInitMethods)
        => /\ net.error = "ValueError"
           /\ \E k \in 1..Len(net.message) :
                  net.message[k] = model_config.init_method
           /\ net.reinit = 0

C9_Witness ==
    /\ gen # NoNet
    /\ disc # NoNet
    /\ model_config.init_method = "kaiming"
    /\ gen.error = "ValueError"
    /\ disc.error = "ValueError"
    /\ Len(gen.modules) > 0

\* C10: both networks take their block count from the lookup 32->4, 64->5,
\* 128->6, 256->7; for any other data size the constructor raises before
\* any block is built, with no fallback block count.
ExpectedNumBlocks(data_size) ==
    CASE data_size = 32 -> 4
      [] data_size = 64 -> 5
      [] data_size = 128 -> 6
      [] data_size = 256 -> 7
      [] OTHER -> 0

C10_BlockCountLookup ==
    \A net \in {gen, disc} :
        net # NoNet =>
            IF model_config.data_size \in {32, 64, 128, 256}
            THEN /\ net.error # "KeyError"
                 /\ net.num_blocks = ExpectedNumBlocks(model_config.data_size)
            ELSE /\ net.error = "KeyError"
                 /\ net.modules = <<>>
                 /\ net.num_blocks = 0

C10_Witness ==
    /\ model_config.data_size = 100
    /\ gen # NoNet /\ gen.error = "KeyError"
    /\ disc # NoNet /\ disc.error = "KeyError"

(***************************************************************************)
(* Properties of generate_pixel_maps (checked under SpecPix).              *)
(***************************************************************************)
\* the coordinates of sample b whose observed-mask channel (channel 0) is 1
Observed(b) ==
    {p \in GridTuples(pix_call.data_size) :
        pixel_maps[<<b, 0, p[1], p[2]>>] = 1}

IntCountInRange ==
    /\ pix_call.n_pixels.type = "int"
    /\ pix_call.n_pixels.value >= 0
    /\ pix_call.n_pixels.value <= pix_call.data_size * pix_call.data_size

\* C1: called with an integer pixel count k, 0 <= k <= data_size*data_size,
\* generate_pixel_maps does not raise, and in the returned map every sample
\* has exactly k coordinates whose channel 0 is 1, every other coordinate
\* being 0 in every channel.
C1_ExactlyKObserved ==
    IntCountInRange =>
        /\ pix_pc # "raised"
        /\ pix_pc = "returned" =>
            \A b \in 1..pix_call.batch_size :
                /\ Cardinality(Observed(b)) = pix_call.n_pixels.value
                /\ \A p \in GridTuples(pix_call.data_size) \ Observed(b) :
                       \A c \in 0..(pix_call.n_classes - 1) :
                           pixel_maps[<<b, c, p[1], p[2]>>] = 0

C1_Witness ==
    /\ pix_pc = "returned"
    /\ pix_call.n_pixels = [type |-> "int", value |-> 2]
    /\ pix_call.data_size = 2
    /\ pix_call.batch_size = 2
    /\ pix_call.n_classes = 2
    /\ Cardinality(Observed(1)) = 2
    /\ Observed(1) # Observed(2)
    /\ \E p \in Observed(2) : pixel_maps[<<2, 1, p[1], p[2]>>] = 1

(***************************************************************************)
(* Properties of train(config) and of the trainer (checked under           *)
(* SpecTrain).                                                             *)
(***************************************************************************)
\* C4: the names of the losses returned by an update are fixed by the
\* update's role and the adversarial loss: train_discriminator returns
\* d_loss, d_loss_real, d_loss_gp with the Wasserstein loss and no d_loss_gp
\* with the hinge loss; train_generator returns g_loss only; at every step
\* and with or without mixed precision.
C4_LossNames ==
    /\ losses.by = "train_discriminator" =>
        /\ config.adv_loss = "wgan-gp" =>
               losses.keys = {"d_loss", "d_loss_real", "d_loss_gp"}
        /\ config.adv_loss = "hinge" => "d_loss_gp" \notin losses.keys
    /\ losses.by = "train_generator" => losses.keys = {"g_loss"}

C4_Witness ==
    /\ losses.by = "train_discriminator"
    /\ config.adv_loss = "hinge"
    /\ config.mixed_precision
    /\ losses.step = 1
    /\ losses.keys # {}

\* build_model_opt has returned the networks of a resumed run and no update
\* has been made yet
JustRecovered ==
    /\ app.pc = "training"
    /\ losses.by = "none"
    /\ config.recover_model_step # NoRecover

\* C5: when the parameters of both networks were saved for step s,
\* build_model_opt with recover_model_step = s finds the snapshots and
\* returns networks whose parameters are the ones saved for s, whatever was
\* trained or saved for other steps in between.
C5_CheckpointRoundTrip ==
    /\ JustRecovered =>
        /\ config.recover_model_step \in DOMAIN saved_at
        /\ g_params = saved_at[config.recover_model_step][1]
        /\ d_params = saved_at[config.recover_model_step][2]
    /\ (app.pc = "raised" /\ app.error = "FileNotFoundError") =>
        config.recover_model_step \notin DOMAIN saved_at

C5_Witness ==
    /\ JustRecovered
    /\ config.recover_model_step = 1
    /\ 2 \in DOMAIN saved_at
    /\ saved_at[2] # saved_at[1]
    /\ <<g_params, d_params>> = saved_at[1]
    /\ g_params # d_params

\* C7: without a CUDA accelerator train(config) raises first: the seed is
\* not set, no data loader and no trainer is constructed and no training
\* step runs, whatever the architecture.
C7_NoCudaRaisesFirst ==
    (~cuda_available /\ app.pc # "idle") =>
        /\ app.pc = "raised"
        /\ app.error = "ValueError"
        /\ app.global_seed = <<>>
        /\ app.data_loader = <<>>
        /\ app.trainer = <<>>
        /\ turn = "idle"
        /\ step = 0
        /\ losses = NoLosses

C7_Witness ==
    /\ ~cuda_available
    /\ app.pc = "raised"
    /\ config.architecture = "sagan"
    /\ app.error = "ValueError"

\* C8: with an accelerator and an architecture other than sagan and
\* cond_sagan, train(config) raises a not-implemented error naming the
\* architecture; no data loader and no trainer is constructed and no
\* training step runs.
C8_UnknownArchitectureRaises ==
    (/\ cuda_available
     /\ app.pc # "idle"
     /\ config.architecture \notin {"sagan", "cond_sagan"})
    => /\ app.pc = "raised"
       /\ app.error = "NotImplementedError"
       /\ \E k \in 1..Len(app.message) :
              app.message[k] = config.architecture
       /\ app.data_loader = <<>>
       /\ app.trainer = <<>>
       /\ turn = "idle"
       /\ losses = NoLosses

C8_Witness ==
    /\ cuda_available
    /\ app.pc = "raised"
    /\ config.architecture = "dcgan"
    /\ app.error = "NotImplementedError"
    /\ app.global_seed # <<>>

\* A step of the trainer is a generator update when the turn passes from the
\* generator to the end of the iteration.
GeneratorUpdateStep == turn = "gen" /\ turn' = "end"

DiscriminatorUpdateStep == turn = "disc" /\ turn' = "gen"

\* C11: a generator update made while the step counter is below the
\* configured EMA start step leaves the shadow as it was; a generator update
\* made at or after the start step sets the shadow to the blend of the old
\* shadow with the generator parameters as they are after the optimizer
\* step; no other step of a run touches the shadow.
C11_EmaWarmupAndBlend ==
    [][/\ (GeneratorUpdateStep /\ step < config.ema_start_step) =>
              ema_params' = ema_params
       /\ (GeneratorUpdateStep /\ step >= config.ema_start_step) =>
              ema_params' = EmaBlend(ema_params, g_params')
       /\ (~GeneratorUpdateStep /\ runs' = runs) =>
              ema_params' = ema_params]_vars

\* A fresh run with start step 1: the update of step 0 did not blend, the
\* update of step 1 blended the shadow 0 with the stepped parameters 2.
C11_Witness ==
    /\ app.pc = "training"
    /\ turn = "end"
    /\ step = 1
    /\ config.ema_start_step = 1
    /\ config.recover_model_step = NoRecover
    /\ g_params = 2
    /\ ema_params = EmaShadow(1)

\* what a step of the trainer does around a skipped optimizer step
OverflowSkip ==
    /\ (DiscriminatorUpdateStep /\ found_inf') =>
           (/\ d_params' = d_params
            /\ d_optimizer' = d_optimizer
            /\ app' = app
            /\ losses'.by = "train_discriminator"
            /\ losses'.step = step)
    /\ (GeneratorUpdateStep /\ found_inf') =>
           (/\ g_params' = g_params
            /\ g_optimizer' = g_optimizer
            /\ app' = app
            /\ losses'.by = "train_generator"
            /\ losses'.step = step)
    /\ (turn = "end" /\ found_inf) =>
           (/\ step' = step + 1
            /\ app'.pc \in {"training", "done"})

\* C12: an update whose scaled gradients overflowed leaves the parameters
\* and the optimizer moments of the network it trains as they were, raises
\* nothing and still returns its losses; the iteration goes on to the next
\* update, and after a skipped generator update the step counter still
\* advances by one.
C12_OverflowSkipsOptimizerStep ==
    /\ [][OverflowSkip]_vars
    /\ []((app.pc = "training" /\ turn = "gen") =>
              ENABLED TrainGenerator(FALSE))
    /\ []((app.pc = "training" /\ turn = "end") => ENABLED EndIteration)

\* Both updates of step 0 overflowed after a fresh start: nothing moved,
\* the counter advanced and the next iteration is about to start.
C12_Witness ==
    /\ app.pc = "training"
    /\ config.mixed_precision
    /\ config.recover_model_step = NoRecover
    /\ found_inf
    /\ step = 1
    /\ turn = "disc"
    /\ losses.by = "train_generator"
    /\ g_params = 0
    /\ g_optimizer = 0
    /\ d_params = 0
    /\ d_optimizer = 0

(***************************************************************************)
(* Placement of the attention layers (checked under SpecNet).              *)
(***************************************************************************)
\* the name under which the i-th block of a network is registered: conv1 ..
\* conv<num_blocks-1>, then conv_last
BlockName(net, i) ==
    IF i < net.num_blocks THEN ConvName(i) ELSE <<"conv_last">>

\* the constructor registered an attention layer right after the i-th block
AttnCreatedAfter(net, i) ==
    \E k \in 1..(Len(net.modules) - 1) :
        /\ net.modules[k].name = BlockName(net, i)
        /\ net.modules[k + 1].module.kind = "attn"

\* the forward pass applied an attention layer to the output of block i
AttnAppliedAfter(i) == \E k \in 1..Len(out.used) : out.used[k][2] = i

\* the network the last forward call ran
OutNet == IF out.op = "gen.forward" THEN gen ELSE disc

\* C13: in either network, for every block index i of 1..num_blocks, an
\* attention layer follows the i-th block exactly when i is in
\* attn_layer_num; a forward pass applies attention after exactly the listed
\* blocks and returns one attention map per listed index of 1..num_blocks,
\* the same number for the generator and the discriminator.
C13_AttentionAtEveryListedBlock ==
    /\ \A net \in {gen, disc} :
           net.error = None =>
               \A i \in 1..net.num_blocks :
                   AttnCreatedAfter(net, i) <=>
                       i \in model_config.attn_layer_num
    /\ out.op \in {"gen.forward", "disc.forward"} =>
           /\ out.error = None
           /\ \A i \in 1..OutNet.num_blocks :
                  AttnAppliedAfter(i) <=> i \in model_config.attn_layer_num
           /\ Len(out.att_list) =
                  Cardinality(model_config.attn_layer_num
                              \cap 1..OutNet.num_blocks)

(***************************************************************************)
(* Contents of the pixel maps (checked under SpecPix).                     *)
(***************************************************************************)
\* the channels of sample b that are 1 at coordinate p
ChannelsSet(b, p) ==
    {c \in 0..(pix_call.n_classes - 1) :
        pixel_maps[<<b, c, p[1], p[2]>>] = 1}

ListCountInRange ==
    /\ pix_call.n_pixels.type = "list"
    /\ Len(pix_call.n_pixels.value) = 2
    /\ 0 <= pix_call.n_pixels.value[1]
    /\ pix_call.n_pixels.value[1] <= pix_call.n_pixels.value[2]
    /\ pix_call.n_pixels.value[2] <= pix_call.data_size * pix_call.data_size

\* n_pixels is neither an integer nor a list of length 2
BadNPixelsType ==
    /\ pix_call.n_pixels.type # "int"
    /\ ~(pix_call.n_pixels.type = "list" /\ Len(pix_call.n_pixels.value) = 2)

\* C15: called with n_pixels = [lo, hi], 0 <= lo <= hi <= data_size^2,
\* generate_pixel_maps raises nothing, draws one count n with lo <= n <= hi
\* and gives every sample of the batch exactly n observed coordinates;
\* called with n_pixels neither an integer nor a list of length 2 it raises
\* and no map is made.
C15_ListCountDrawnOnce ==
    /\ ListCountInRange =>
           /\ pix_pc # "raised"
           /\ pix_pc \in {"loop", "returned"} =>
                  /\ pix_call.n_pixels.value[1] <= n_pixels_int
                  /\ n_pixels_int <= pix_call.n_pixels.value[2]
                  /\ \A b \in 1..i_batch :
                         Cardinality(Observed(b)) = n_pixels_int
    /\ (BadNPixelsType /\ pix_pc # "call") =>
           /\ pix_pc = "raised"
           /\ pixel_maps = <<>>

(***************************************************************************)
(* Agreement of construction and forward pass (checked under SpecNet).     *)
(***************************************************************************)
\* the positions in the registry of net at which the constructor registered
\* the layer called name right after the block conv<i>
CreatedAfterBlock(net, name, i) ==
    {j \in 2..Len(net.modules) :
        /\ net.modules[j].name = name
        /\ net.modules[j - 1].name = ConvName(i)}

\* C16: in a forward pass of either network every attention layer looked
\* up exists: the k-th lookup asks for attn<k>, after the block after which
\* the constructor created attn<k>, and the layer takes as many channels as
\* that block puts out; every layer the constructor created is applied
\* exactly once, and the pass raises nothing.
C16_ForwardMatchesConstruction ==
    out.op \in {"gen.forward", "disc.forward"} =>
        /\ out.error = None
        /\ \A k \in 1..Len(out.used) :
               /\ out.used[k][1] = AttnName(k)
               /\ HasAttr(OutNet.modules, out.used[k][1])
               /\ \E j \in CreatedAfterBlock(OutNet, out.used[k][1],
                                             out.used[k][2]) :
                      OutNet.modules[j].module.chanel_in =
                          OutNet.modules[j - 1].module.out_channels
        /\ \A j \in AttnLayers(OutNet) :
               Cardinality({k \in 1..Len(out.used) :
                               out.used[k][1] = OutNet.modules[j].name}) = 1
        /\ Len(out.att_list) = Cardinality(AttnLayers(OutNet))

\* A discriminator of six blocks with attention after blocks 3 and 5: attn1
\* is looked up after conv3 and attn2 after conv5.
C16_Witness ==
    /\ out.op = "disc.forward"
    /\ model_config.data_size = 128
    /\ model_config.attn_layer_num = {3, 5}
    /\ out.used = <<<<AttnName(1), 3>>, <<AttnName(2), 5>>>>
    /\ Len(out.att_list) = 2

====
